---------------------------- MODULE Spec2Model ----------------------------
(***************************************************************************)
(* A model of main.py of EML2PDF: the batch loop over the input directory, *)
(* process_eml_file (output folder, parse, body extraction, rendering,     *)
(* extraction of the PDF attachments), html_to_pdf and sanitize_filename.  *)
(*                                                                         *)
(* File names are sequences of one-character strings, so that strip(),     *)
(* re.sub(), lower() and endswith() are computed character by character.   *)
(* Payloads and decoded bodies are short strings: "" is the empty payload. *)
(***************************************************************************)
EXTENDS Integers, Sequences, FiniteSets, TLC

VARIABLES
    entries,            \* EML_FOLDER.iterdir(): the directory listing, in iteration order
    pos,                \* how many entries the main loop has taken
    pc,                 \* the position of the script
    processed_files,    \* main.py:211
    calls,              \* history: the entries process_eml_file was called on, in order
    outdirs,            \* history: email_output_dir of each call, in order
    dirs,               \* the subdirectories of OUTPUT_FOLDER
    fs,                 \* the files of OUTPUT_FOLDER: records [dir, name, content]
    email_output_dir,   \* main.py:59 (its name under OUTPUT_FOLDER)
    msg,                \* main.py:64
    body_html,          \* main.py:67
    body_text,          \* main.py:68
    html_src,           \* history: the walk index of the part body_html came from (0: none)
    text_src,           \* history: the walk index of the part body_text came from (0: none)
    pdf_generated,      \* main.py:113
    rendered,           \* history: the documents handed to html_to_pdf for this message
    attachment_count,   \* main.py:156
    k,                  \* the walk index of the attachment loop, main.py:157
    writes,             \* history: the attachment writes attempted for this message
    aborted,            \* history: process_eml_file ended in one of its except clauses
    san_in,             \* the argument of a call of sanitize_filename checked on its own
    san_out             \* its result

vars == <<entries, pos, pc, processed_files, calls, outdirs, dirs, fs,
          email_output_dir, msg, body_html, body_text, html_src, text_src,
          pdf_generated, rendered, attachment_count, k, writes, aborted,
          san_in, san_out>>

---------------------------------------------------------------------------
(* Bounds *)

\* The longest string sanitize_filename is checked on (besides the spec's example).
MaxLen == 3
\* The most sub-parts a multipart message holds.
MaxParts == 2
\* The most entries of the input directory in the batch specification.
MaxEntries == 2

---------------------------------------------------------------------------
(* Strings *)

\* Python's None for a str-valued variable, and str(None) for a missing header.
NONE == "<None>"

\* bool(x) of a str or None.
Truthy(x) == x # NONE /\ x # ""

\* str.strip() strips whitespace.
Whitespace == {" "}

\* The character class of main.py:25.
InvalidChars == {"\\", "/", "*", "?", ":", "\"", "<", ">", "|"}

Max(S) == CHOOSE x \in S : \A y \in S : y <= x

Min(S) == CHOOSE x \in S : \A y \in S : x <= y

\* s[a-1:b] of Python, as a tuple.
Slice(s, a, b) == SubSeq(s, a, b)

\* A sequence given as a function, as a tuple.
AsTuple(f) == SubSeq(f, 1, Len(f))

\* str.strip(): the string from its first to its last non-whitespace character.
Strip(s) ==
    LET keep == {i \in 1..Len(s) : s[i] \notin Whitespace}
    IN  IF keep = {} THEN <<>> ELSE Slice(s, Min(keep), Max(keep))

\* re.sub(r'[\\/*?:"<>|]', "_", s)
SubInvalid(s) ==
    AsTuple([i \in 1..Len(s) |-> IF s[i] \in InvalidChars THEN "_" ELSE s[i]])

\* re.sub(r'_+', '_', s): every run of underscores becomes one underscore.
SubUnderscores(s) ==
    LET keep == {i \in 1..Len(s) : ~(s[i] = "_" /\ i > 1 /\ s[i - 1] = "_")}
        nth(j) == CHOOSE i \in keep : Cardinality({x \in keep : x <= i}) = j
    IN  AsTuple([j \in 1..Cardinality(keep) |-> s[nth(j)]])

UNNAMED_FILE == <<"u", "n", "n", "a", "m", "e", "d", "_", "f", "i", "l", "e">>

\* A slip a sanitizer could make: the runs of underscores are not collapsed.
sanitize_filename_nocollapse(filename) ==
    LET f == SubInvalid(Strip(filename))
    IN  IF f = <<>> THEN UNNAMED_FILE ELSE f

\* main.py:22-29
sanitize_filename(filename) ==
    LET f == SubUnderscores(SubInvalid(Strip(filename)))
    IN  IF f = <<>> THEN UNNAMED_FILE ELSE f

\* str.lower() on the letters the model's names hold in upper case.
LowerChar(c) ==
    CASE c = "E" -> "e" [] c = "M" -> "m" [] c = "L" -> "l"
      [] c = "P" -> "p" [] c = "D" -> "d" [] c = "F" -> "f"
      [] c = "A" -> "a" [] OTHER -> c

Lower(s) == AsTuple([i \in 1..Len(s) |-> LowerChar(s[i])])

\* str.endswith()
EndsWith(s, suf) ==
    /\ Len(s) >= Len(suf)
    /\ Slice(s, Len(s) - Len(suf) + 1, Len(s)) = suf

DOT_PDF == <<".", "p", "d", "f">>

DOT_EML == <<".", "e", "m", "l">>

EMAIL_BODY_PDF == <<"e", "m", "a", "i", "l", "_", "b", "o", "d", "y">> \o DOT_PDF

ATTACHMENT_ == <<"a", "t", "t", "a", "c", "h", "m", "e", "n", "t", "_">>

DigitChar(d) ==
    CASE d = 0 -> "0" [] d = 1 -> "1" [] d = 2 -> "2" [] d = 3 -> "3" [] d = 4 -> "4"
      [] d = 5 -> "5" [] d = 6 -> "6" [] d = 7 -> "7" [] d = 8 -> "8" [] d = 9 -> "9"

\* str(n) of a natural number, as the f-string of main.py:175 formats it.
RECURSIVE IntStr(_)
IntStr(n) == IF n < 10 THEN <<DigitChar(n)>> ELSE IntStr(n \div 10) \o <<DigitChar(n % 10)>>

\* pathlib's PurePath.suffix and PurePath.stem of a file name: the suffix starts
\* at the last dot, unless that dot is the first or the last character.
SuffixStart(name) ==
    LET dots == {i \in 1..Len(name) : name[i] = "."}
    IN  IF dots = {} \/ Max(dots) = 1 \/ Max(dots) = Len(name) THEN Len(name) + 1
        ELSE Max(dots)

Suffix(name) == Slice(name, SuffixStart(name), Len(name))

Stem(name) == Slice(name, 1, SuffixStart(name) - 1)

---------------------------------------------------------------------------
(* Messages *)

\* A part of a parsed message: get_content_type(), the type of its
\* Content-Disposition header (NONE: no such header), get_filename() (<<>>: None)
\* and get_payload(decode=True) ("": empty, and None for a multipart container).
TextParts ==
    [ctype : {"text/html", "text/plain"}, disp : {NONE},
     filename : {<<>>}, payload : {"", "A", "B"}]

\* Text parts flagged attachment or inline.
FlaggedTextParts ==
    [ctype : {"text/html", "text/plain"}, disp : {"attachment", "inline"},
     filename : {<<>>}, payload : {"A"}]

A_PDF == <<"a">> \o DOT_PDF

ATTACHMENT_1_PDF == ATTACHMENT_ \o <<"1">> \o DOT_PDF

PdfParts ==
    [ctype : {"application/pdf"}, disp : {NONE, "attachment"},
     filename : {<<>>, A_PDF, <<"d">>, EMAIL_BODY_PDF, ATTACHMENT_1_PDF},
     payload : {"", "P"}]

\* A part named *.pdf by its Content-Type's name parameter or its disposition,
\* of another content type.
OctetParts ==
    [ctype : {"application/octet-stream"}, disp : {NONE, "attachment"},
     filename : {A_PDF}, payload : {"P"}]

Parts == TextParts \cup FlaggedTextParts \cup PdfParts \cup OctetParts

\* The multipart container walk() yields first.
RootPart == [ctype |-> "multipart/mixed", disp |-> NONE, filename |-> <<>>, payload |-> ""]

SeqsUpTo(S, n) == UNION {[1..m -> S] : m \in 1..n}

\* The messages with at most n sub-parts: a multipart message of 1..n parts, or
\* a message that is one part.
Messages(n) ==
    {[multipart |-> TRUE, parts |-> ps] : ps \in SeqsUpTo(Parts, n)}
    \cup {[multipart |-> FALSE, parts |-> <<p>>] : p \in Parts}

NoMsg == [multipart |-> FALSE, parts |-> <<>>]

\* msg.is_multipart(), main.py:70
is_multipart(m) == m.multipart

\* msg.walk(): the message itself, then its sub-parts depth first.
walk(m) == IF m.multipart THEN <<RootPart>> \o m.parts ELSE m.parts

\* part.get_content_maintype()
get_content_maintype(part) ==
    CASE part.ctype \in {"text/html", "text/plain"} -> "text"
      [] part.ctype \in {"application/pdf", "application/octet-stream"} -> "application"
      [] OTHER -> "multipart"

\* main.py:75: "attachment" in content_disposition or "inline" in content_disposition
Flagged(part) == part.disp \in {"attachment", "inline"}

\* bytes.decode(charset, errors='replace'), main.py:81; the model's payloads are ASCII.
Decode(payload) == payload

---------------------------------------------------------------------------
(* Body extraction, main.py:67-108 *)

NoBody == [html |-> NONE, text |-> NONE, hsrc |-> 0, tsrc |-> 0]

\* A slip the loop could make: a later text/html part replaces the one found.
BodyStepLastHtml(b, part, idx) ==
    IF Flagged(part) THEN b
    ELSE IF part.ctype = "text/html"
         THEN [b EXCEPT !.html = Decode(part.payload), !.hsrc = idx]
    ELSE IF part.ctype = "text/plain" /\ ~Truthy(b.html) /\ ~Truthy(b.text)
         THEN [b EXCEPT !.text = Decode(part.payload), !.tsrc = idx]
    ELSE b

\* One iteration of the loop of main.py:71-92 on the part at walk index idx.
BodyStep(b, part, idx) ==
    IF Flagged(part) THEN b
    ELSE IF part.ctype = "text/html" /\ ~Truthy(b.html)
         THEN [b EXCEPT !.html = Decode(part.payload), !.hsrc = idx]
    ELSE IF part.ctype = "text/plain" /\ ~Truthy(b.html) /\ ~Truthy(b.text)
         THEN [b EXCEPT !.text = Decode(part.payload), !.tsrc = idx]
    ELSE b

\* The loop of main.py:71-92 over the first n parts of the walk.
RECURSIVE BodyLoop(_, _)
BodyLoop(w, n) == IF n = 0 THEN NoBody ELSE BodyStep(BodyLoop(w, n - 1), w[n], n)

\* The non-multipart branch, main.py:93-108.
SingleBody(part) ==
    IF part.ctype = "text/html"
         THEN [NoBody EXCEPT !.html = Decode(part.payload), !.hsrc = 1]
    ELSE IF part.ctype = "text/plain"
         THEN [NoBody EXCEPT !.text = Decode(part.payload), !.tsrc = 1]
    ELSE NoBody

\* main.py:70-108
ExtractedBody(m) ==
    IF is_multipart(m) THEN BodyLoop(walk(m), Len(walk(m))) ELSE SingleBody(m.parts[1])

---------------------------------------------------------------------------
(* The files of OUTPUT_FOLDER *)

Exists(files, dir, name) == \E f \in files : f.dir = dir /\ f.name = name

\* open(path, 'wb') and write: the file holds content, whatever it held.
WriteFile(files, dir, name, content) ==
    {f \in files : ~(f.dir = dir /\ f.name = name)}
        \cup {[dir |-> dir, name |-> name, content |-> content]}

\* Path.touch(): an empty file is created unless the file exists.
Touch(files, dir, name) ==
    IF Exists(files, dir, name) THEN files
    ELSE files \cup {[dir |-> dir, name |-> name, content |-> [kind |-> "empty", data |-> ""]]}

---------------------------------------------------------------------------
(* Rendering, main.py:32-50 and 112-152 *)

\* What a call of html_to_pdf can meet:
\*   ok             the file is opened and pisa.CreatePDF reports no error
\*   pisa_err       the file is opened and pisa.CreatePDF reports an error
\*   raise_opened   the file is opened, then encode or CreatePDF raises
\*   raise_touched  open raises, touch succeeds
\*   raise_nofile   open raises, touch raises OSError
RenderOutcomes == {"ok", "pisa_err", "raise_opened", "raise_touched", "raise_nofile"}

\* A slip the converter could make: the PDF is rendered but never written.
html_to_pdf_nowrite(files, dir, name, doc, outcome) ==
    IF outcome = "ok" THEN [files |-> files, err |-> 0] ELSE [files |-> files, err |-> 1]

\* html_to_pdf(source_html, output_filename), main.py:32-50: the files afterwards
\* and the error code returned. open(..., "w+b") creates or truncates the file
\* before anything is rendered.
html_to_pdf(files, dir, name, doc, outcome) ==
    CASE outcome = "ok" ->
            [files |-> WriteFile(files, dir, name, [kind |-> doc.kind, data |-> doc.body]),
             err |-> 0]
      [] outcome = "pisa_err" ->
            [files |-> WriteFile(files, dir, name, [kind |-> "partial", data |-> ""]),
             err |-> 1]
      [] outcome = "raise_opened" ->
            [files |-> Touch(WriteFile(files, dir, name, [kind |-> "empty", data |-> ""]), dir, name),
             err |-> 1]
      [] outcome = "raise_touched" ->
            [files |-> Touch(files, dir, name), err |-> 1]
      [] outcome = "raise_nofile" ->
            [files |-> files, err |-> 1]

\* A slip the script could make: the plain text is tried first.
BodyChoiceTextFirst(bh, bt) ==
    IF Truthy(bt) THEN "text" ELSE IF Truthy(bh) THEN "html" ELSE "none"

\* The branch main.py:114 / 140 takes: if body_html ... elif body_text.
BodyChoice(bh, bt) ==
    IF Truthy(bh) THEN "html" ELSE IF Truthy(bt) THEN "text" ELSE "none"

\* The document handed to html_to_pdf: body_html in the wrapper of main.py:117-131,
\* or body_text in the <pre> wrapper of main.py:143.
HtmlDocument(bh) == [kind |-> "html", body |-> bh]

TextDocument(bt) == [kind |-> "text", body |-> bt]

---------------------------------------------------------------------------
(* Attachments, main.py:156-189 *)

\* mimetypes.guess_extension(type) or ".pdf", main.py:173
guess_extension(ctype) ==
    CASE ctype = "application/pdf" -> DOT_PDF
      [] ctype = "text/plain" -> <<".", "t", "x", "t">>
      [] ctype = "text/html" -> <<".", "h", "t", "m", "l">>
      [] ctype = "application/octet-stream" -> <<".", "b", "i", "n">>
      [] OTHER -> DOT_PDF

\* A slip the filter could make: every part without a disposition is skipped.
SkippedNoDispositionAll(part) == part.disp = NONE

\* main.py:161: no Content-Disposition header and not application/pdf.
SkippedNoDisposition(part) == part.disp = NONE /\ part.ctype # "application/pdf"

\* main.py:164-165
LooksLikePdf(part) ==
    \/ part.ctype = "application/pdf"
    \/ (part.filename # <<>> /\ EndsWith(Lower(part.filename), DOT_PDF))

\* The parts the loop of main.py:157 does not skip.
IsCandidate(part) ==
    /\ get_content_maintype(part) # "multipart"
    /\ ~SkippedNoDisposition(part)
    /\ LooksLikePdf(part)

\* A slip the counter could make: it is never advanced.
NextCountStuck(part, count) == count

\* main.py:174: the counter advances for a part without a filename.
NextCount(part, count) == IF part.filename # <<>> THEN count ELSE count + 1

\* main.py:167-176: the name a candidate is saved under; count is the counter
\* after main.py:174.
AttachmentName(part, count) ==
    IF part.filename # <<>>
    THEN LET f == sanitize_filename(part.filename)
         IN  IF part.ctype = "application/pdf" /\ ~EndsWith(Lower(f), DOT_PDF)
             THEN f \o DOT_PDF ELSE f
    ELSE sanitize_filename(ATTACHMENT_ \o IntStr(count) \o guess_extension(part.ctype))

---------------------------------------------------------------------------
(* The input directory *)

A_EML == <<"a">> \o DOT_EML

A_EML_UPPER == <<"a", ".", "E", "M", "L">>

A_COLON_EML == <<"a", ":">> \o DOT_EML

A_UNDERSCORE_EML == <<"a", "_">> \o DOT_EML

N_TXT == <<"n", ".", "t", "x", "t">>

D_EML == <<"d">> \o DOT_EML

\* Entries that are no .eml file: a file of another suffix, and a directory
\* whose name ends in .eml.
OtherEntries ==
    {[name |-> N_TXT, is_file |-> TRUE, msg |-> NoMsg],
     [name |-> D_EML, is_file |-> FALSE, msg |-> NoMsg]}

FileEntries(names, msgs) ==
    {[name |-> n, is_file |-> TRUE, msg |-> m] : n \in names, m \in msgs}

\* The listings of at most n entries of E: the names of a directory are distinct.
Listings(E, n) ==
    {l \in UNION {[1..m -> E] : m \in 0..n} :
        \A i, j \in 1..Len(l) : i # j => l[i].name # l[j].name}

\* The messages of the batch specification: a plain-text message, a multipart
\* message with an HTML body and two PDF attachments, a message that is one PDF.
BatchMsgs ==
    {[multipart |-> FALSE,
      parts |-> <<[ctype |-> "text/plain", disp |-> NONE, filename |-> <<>>, payload |-> "A"]>>],
     [multipart |-> TRUE,
      parts |-> <<[ctype |-> "text/html", disp |-> NONE, filename |-> <<>>, payload |-> "B"],
                  [ctype |-> "application/pdf", disp |-> "attachment", filename |-> A_PDF, payload |-> "P"],
                  [ctype |-> "application/pdf", disp |-> NONE, filename |-> <<>>, payload |-> ""]>>],
     [multipart |-> FALSE,
      parts |-> <<[ctype |-> "application/pdf", disp |-> NONE, filename |-> <<>>, payload |-> "P"]>>]}

BatchEntries ==
    FileEntries({A_EML, A_EML_UPPER, A_COLON_EML, A_UNDERSCORE_EML}, BatchMsgs)
        \cup OtherEntries

MsgEntries == FileEntries({A_EML}, Messages(MaxParts)) \cup OtherEntries

\* main.py:213
IsEmlFile(item) == item.is_file /\ Lower(Suffix(item.name)) = DOT_EML

---------------------------------------------------------------------------
(* Exceptions *)

\* What the steps of process_eml_file raise in the model.
Exceptions == {"FileNotFoundError", "OSError", "Exception"}

\* A slip the handler could make: only the missing file is caught.
CaughtOnlyNotFound(exc) == exc = "FileNotFoundError"

\* main.py:194-197: except FileNotFoundError, then except Exception.
Caught(exc) == exc = "FileNotFoundError" \/ exc \in Exceptions

\* An exception raised inside the try block of main.py:56: it ends the call in an
\* except clause, or leaves process_eml_file and the script.
Raise(exc) ==
    /\ aborted' = TRUE
    /\ pc' = IF Caught(exc) THEN "return" ELSE "crashed"

---------------------------------------------------------------------------
(* The script *)

InitRun ==
    /\ pos = 0
    /\ processed_files = 0
    /\ calls = <<>>
    /\ outdirs = <<>>
    /\ dirs = {}
    /\ fs = {}
    /\ email_output_dir = <<>>
    /\ msg = NoMsg
    /\ body_html = NONE
    /\ body_text = NONE
    /\ html_src = 0
    /\ text_src = 0
    /\ pdf_generated = FALSE
    /\ rendered = <<>>
    /\ attachment_count = 0
    /\ k = 0
    /\ writes = <<>>
    /\ aborted = FALSE
    /\ san_out = <<>>

\* One input file holding any message of at most MaxParts sub-parts, or one
\* entry that is no .eml file, or an empty directory.
Init ==
    /\ entries \in Listings(MsgEntries, 1)
    /\ pc = "iter"
    /\ san_in = <<>>
    /\ InitRun

\* A directory of at most MaxEntries entries.
InitBatch ==
    /\ entries \in Listings(BatchEntries, MaxEntries)
    /\ pc = "iter"
    /\ san_in = <<>>
    /\ InitRun

run_vars == <<entries, pos, processed_files, calls, outdirs, dirs, fs>>

local_vars == <<email_output_dir, msg, body_html, body_text, html_src, text_src,
                pdf_generated, rendered, attachment_count, k, writes, aborted>>

san_vars == <<san_in, san_out>>

\* main.py:212-214: the next entry is an .eml file; process_eml_file is called.
CallProcess ==
    /\ pc = "iter"
    /\ pos < Len(entries)
    /\ IsEmlFile(entries[pos + 1])
    /\ pos' = pos + 1
    /\ calls' = Append(calls, pos + 1)
    /\ pc' = "mkdir"
    /\ email_output_dir' = <<>>
    /\ msg' = NoMsg
    /\ body_html' = NONE
    /\ body_text' = NONE
    /\ html_src' = 0
    /\ text_src' = 0
    /\ pdf_generated' = FALSE
    /\ rendered' = <<>>
    /\ attachment_count' = 0
    /\ k' = 0
    /\ writes' = <<>>
    /\ aborted' = FALSE
    /\ UNCHANGED <<entries, processed_files, outdirs, dirs, fs, san_vars>>

\* main.py:212-213: the next entry is no .eml file.
SkipItem ==
    /\ pc = "iter"
    /\ pos < Len(entries)
    /\ ~IsEmlFile(entries[pos + 1])
    /\ pos' = pos + 1
    /\ UNCHANGED <<entries, pc, processed_files, calls, outdirs, dirs, fs, local_vars, san_vars>>

\* main.py:58-60
MakeOutputDir ==
    /\ pc = "mkdir"
    /\ email_output_dir' = sanitize_filename(Stem(entries[pos].name))
    /\ \/ /\ dirs' = dirs \cup {email_output_dir'}
          /\ outdirs' = Append(outdirs, email_output_dir')
          /\ pc' = "parse"
          /\ UNCHANGED aborted
       \/ /\ Raise("OSError")
          /\ UNCHANGED <<dirs, outdirs>>
    /\ UNCHANGED <<entries, pos, processed_files, calls, fs, msg, body_html, body_text,
                   html_src, text_src, pdf_generated, rendered, attachment_count, k,
                   writes, san_vars>>

\* main.py:63-64
ParseFile ==
    /\ pc = "parse"
    /\ \/ /\ msg' = entries[pos].msg
          /\ pc' = "body"
          /\ UNCHANGED aborted
       \/ /\ \E exc \in {"FileNotFoundError", "OSError"} : Raise(exc)
          /\ UNCHANGED msg
    /\ UNCHANGED <<run_vars, email_output_dir, body_html, body_text, html_src, text_src,
                   pdf_generated, rendered, attachment_count, k, writes, san_vars>>

\* main.py:67-108. A charset error is caught at main.py:82 (and its like) and the
\* part decoded as UTF-8; anything else a part raises leaves the try block.
ExtractBody ==
    /\ pc = "body"
    /\ \/ /\ LET b == ExtractedBody(msg)
             IN  /\ body_html' = b.html
                 /\ body_text' = b.text
                 /\ html_src' = b.hsrc
                 /\ text_src' = b.tsrc
          /\ pc' = "render"
          /\ UNCHANGED aborted
       \/ /\ Raise("Exception")
          /\ UNCHANGED <<body_html, body_text, html_src, text_src>>
    /\ UNCHANGED <<run_vars, email_output_dir, msg, pdf_generated, rendered,
                   attachment_count, k, writes, san_vars>>

\* main.py:114-138
ConvertHtml ==
    /\ pc = "render"
    /\ BodyChoice(body_html, body_text) = "html"
    /\ \E outcome \in RenderOutcomes :
          LET doc == HtmlDocument(body_html)
              r == html_to_pdf(fs, email_output_dir, EMAIL_BODY_PDF, doc, outcome)
          IN  /\ fs' = r.files
              /\ pdf_generated' = (r.err = 0)
              /\ rendered' = Append(rendered, doc)
    /\ pc' = "attach"
    /\ k' = 1
    /\ UNCHANGED <<entries, pos, processed_files, calls, outdirs, dirs, email_output_dir,
                   msg, body_html, body_text, html_src, text_src, attachment_count,
                   writes, aborted, san_vars>>

\* main.py:140-149
ConvertText ==
    /\ pc = "render"
    /\ BodyChoice(body_html, body_text) = "text"
    /\ \E outcome \in RenderOutcomes :
          LET doc == TextDocument(body_text)
              r == html_to_pdf(fs, email_output_dir, EMAIL_BODY_PDF, doc, outcome)
          IN  /\ fs' = r.files
              /\ pdf_generated' = (r.err = 0)
              /\ rendered' = Append(rendered, doc)
    /\ pc' = "attach"
    /\ k' = 1
    /\ UNCHANGED <<entries, pos, processed_files, calls, outdirs, dirs, email_output_dir,
                   msg, body_html, body_text, html_src, text_src, attachment_count,
                   writes, aborted, san_vars>>

\* main.py:151-152
NoBodyFound ==
    /\ pc = "render"
    /\ BodyChoice(body_html, body_text) = "none"
    /\ pc' = "attach"
    /\ k' = 1
    /\ UNCHANGED <<run_vars, email_output_dir, msg, body_html, body_text, html_src,
                   text_src, pdf_generated, rendered, attachment_count, writes, aborted,
                   san_vars>>

\* main.py:158-165: the part is skipped.
AttachSkip ==
    /\ pc = "attach"
    /\ k <= Len(walk(msg))
    /\ ~IsCandidate(walk(msg)[k])
    /\ k' = k + 1
    /\ UNCHANGED <<run_vars, pc, email_output_dir, msg, body_html, body_text, html_src,
                   text_src, pdf_generated, rendered, attachment_count, writes, aborted,
                   san_vars>>

\* main.py:167-176 for the candidate at walk index k: the counter after
\* main.py:174 and the name of the attachment.
CurCount == NextCount(walk(msg)[k], attachment_count)

CurName == AttachmentName(walk(msg)[k], CurCount)

\* main.py:178 and 182: the name ends in .pdf and the payload is not empty.
Writable == EndsWith(Lower(CurName), DOT_PDF) /\ Truthy(walk(msg)[k].payload)

\* main.py:167-187: the part is named and has no payload (or no .pdf name):
\* nothing is written.
AttachNoPayload ==
    /\ pc = "attach"
    /\ k <= Len(walk(msg))
    /\ IsCandidate(walk(msg)[k])
    /\ ~Writable
    /\ attachment_count' = CurCount
    /\ k' = k + 1
    /\ UNCHANGED <<run_vars, pc, email_output_dir, msg, body_html, body_text, html_src,
                   text_src, pdf_generated, rendered, writes, aborted, san_vars>>

\* main.py:167-185: the part is named and its payload written.
AttachSave ==
    /\ pc = "attach"
    /\ k <= Len(walk(msg))
    /\ IsCandidate(walk(msg)[k])
    /\ Writable
    /\ attachment_count' = CurCount
    /\ fs' = WriteFile(fs, email_output_dir, CurName,
                       [kind |-> "raw", data |-> walk(msg)[k].payload])
    /\ writes' = Append(writes, [part |-> k, name |-> CurName, ok |-> TRUE])
    /\ k' = k + 1
    /\ UNCHANGED <<entries, pos, pc, processed_files, calls, outdirs, dirs,
                   email_output_dir, msg, body_html, body_text, html_src, text_src,
                   pdf_generated, rendered, aborted, san_vars>>

\* main.py:180-189: the write raises; the error is caught at main.py:188 and the
\* loop goes on.
AttachWriteError ==
    /\ pc = "attach"
    /\ k <= Len(walk(msg))
    /\ IsCandidate(walk(msg)[k])
    /\ Writable
    /\ attachment_count' = CurCount
    /\ writes' = Append(writes, [part |-> k, name |-> CurName, ok |-> FALSE])
    /\ k' = k + 1
    /\ UNCHANGED <<run_vars, pc, email_output_dir, msg, body_html, body_text, html_src,
                   text_src, pdf_generated, rendered, aborted, san_vars>>

\* The loop of main.py:157 ends and process_eml_file returns.
AttachDone ==
    /\ pc = "attach"
    /\ k > Len(walk(msg))
    /\ pc' = "return"
    /\ UNCHANGED <<run_vars, local_vars, san_vars>>

\* main.py:215-216
Return ==
    /\ pc = "return"
    /\ processed_files' = processed_files + 1
    /\ pc' = "iter"
    /\ UNCHANGED <<entries, pos, calls, outdirs, dirs, fs, local_vars, san_vars>>

\* main.py:218
Finish ==
    /\ pc = "iter"
    /\ pos = Len(entries)
    /\ pc' = "finished"
    /\ UNCHANGED <<run_vars, local_vars, san_vars>>

Next ==
    \/ CallProcess
    \/ SkipItem
    \/ MakeOutputDir
    \/ ParseFile
    \/ ExtractBody
    \/ ConvertHtml
    \/ ConvertText
    \/ NoBodyFound
    \/ AttachSkip
    \/ AttachNoPayload
    \/ AttachSave
    \/ AttachWriteError
    \/ AttachDone
    \/ Return
    \/ Finish

\* One input file with any message.
Spec == Init /\ [][Next]_vars

\* A directory of several input files.
SpecBatch == InitBatch /\ [][Next]_vars

---------------------------------------------------------------------------
(* sanitize_filename on its own *)

Alphabet == InvalidChars \cup {"a", "_", " ", "."}

\* The strings of at most MaxLen characters, and the example of the specification.
SanInputs ==
    UNION {[1..m -> Alphabet] : m \in 0..MaxLen} \cup {<<"a", "/", "b", ":", "c">>}

InitSan ==
    /\ entries = <<>>
    /\ pc = "sanitize"
    /\ san_in \in SanInputs
    /\ InitRun

Sanitize ==
    /\ pc = "sanitize"
    /\ san_out' = sanitize_filename(san_in)
    /\ pc' = "sanitized"
    /\ UNCHANGED <<run_vars, local_vars, san_in>>

NextSan == Sanitize

\* Calls of sanitize_filename on every string of SanInputs.
SpecSan == InitSan /\ [][NextSan]_vars

---------------------------------------------------------------------------
(* Properties *)

\* The .eml files among the first n entries, in iteration order.
RECURSIVE ExpectedCalls(_)
ExpectedCalls(n) ==
    IF n = 0 THEN <<>>
    ELSE IF entries[n].is_file /\ Lower(Suffix(entries[n].name)) = DOT_EML
         THEN Append(ExpectedCalls(n - 1), n)
         ELSE ExpectedCalls(n - 1)

\* Some action of Next can be taken: the guards of its actions.
CanStep ==
    \/ pc = "iter" /\ pos <= Len(entries)
    \/ pc \in {"mkdir", "parse", "body", "return"}
    \/ pc = "render" /\ BodyChoice(body_html, body_text) \in {"html", "text", "none"}
    \/ pc = "attach" /\ k >= 1

PcRank ==
    CASE pc = "mkdir" -> 8 [] pc = "parse" -> 7 [] pc = "body" -> 6 [] pc = "render" -> 5
      [] pc = "attach" -> 4 [] pc = "return" -> 3 [] pc = "iter" -> 2 [] OTHER -> 1

\* What is left of the run: the entries to take, the steps of the current call,
\* the parts of the attachment loop.
Remaining ==
    (Len(entries) - pos) * 100 * (MaxParts + 3) + PcRank * (MaxParts + 3)
        + (IF pc = "attach" THEN Len(walk(msg)) + 1 - k ELSE 0)

\* C1: the main loop calls process_eml_file exactly once, in iteration order, on
\* every entry that is a file with suffix .eml (case-insensitive), whichever step
\* of a file's processing fails; the script never stops before the final
\* 'Finished processing' step, every step brings it nearer, and there every .eml
\* file of the directory has been processed.
C1_BatchCompletes ==
    /\ [](/\ calls = ExpectedCalls(pos)
          /\ pc # "finished" => CanStep
          /\ pc = "finished" => pos = Len(entries) /\ processed_files = Len(calls))
    /\ [][Remaining' < Remaining /\ Remaining' >= 0]_vars

\* C1's case: the first of two .eml files failed at the creation of its output
\* folder, the second was processed without an exception, the run finished.
C1_Witness ==
    /\ pc = "finished"
    /\ Len(calls) = 2
    /\ Len(outdirs) = 1
    /\ ~aborted
    /\ processed_files = 2

\* C8: no two processed input files are given the same output subdirectory.
C8_DistinctOutputDirs ==
    \A i, j \in 1..Len(outdirs) : i # j => outdirs[i] # outdirs[j]

\* C4: the result of sanitize_filename is non-empty, holds none of the characters
\* \ / * ? : " < > |, no two adjacent underscores and no leading or trailing
\* whitespace; an empty or all-whitespace input gives 'unnamed_file' and 'a/b:c'
\* gives 'a_b_c'.
C4_SanitizedName ==
    pc = "sanitized" =>
        /\ san_out # <<>>
        /\ \A i \in 1..Len(san_out) : san_out[i] \notin InvalidChars
        /\ \A i \in 1..(Len(san_out) - 1) : ~(san_out[i] = "_" /\ san_out[i + 1] = "_")
        /\ san_out[1] \notin Whitespace
        /\ san_out[Len(san_out)] \notin Whitespace
        /\ (\A i \in 1..Len(san_in) : san_in[i] \in Whitespace) => san_out = UNNAMED_FILE
        /\ san_in = <<"a", "/", "b", ":", "c">> => san_out = <<"a", "_", "b", "_", "c">>

\* C4's case: a name with surrounding whitespace and two invalid characters in a
\* row has been sanitized to one underscore.
C4_Witness ==
    /\ pc = "sanitized"
    /\ san_in = <<" ", "/", ":">>
    /\ san_out = <<"_">>

\* The render step of the current message is over.
RenderDone == pc \in {"attach", "return"} /\ ~aborted

\* The body extraction of the current message is over.
BodyDone == pc \in {"render", "attach", "return"} /\ ~aborted

\* The walk indices of the parts of a content type that are flagged neither
\* attachment nor inline, and those among them with non-empty content.
Unflagged(ctype) ==
    {i \in 1..Len(walk(msg)) : walk(msg)[i].ctype = ctype /\ ~Flagged(walk(msg)[i])}

UnflaggedNonEmpty(ctype) ==
    {i \in Unflagged(ctype) : walk(msg)[i].payload # ""}

BodySource == IF rendered[1].kind = "html" THEN html_src ELSE text_src

\* C6: the part rendered as the email body is flagged neither attachment nor
\* inline, in a multipart message and in a message that is one part.
C6_FlaggedNeverBody ==
    (RenderDone /\ rendered # <<>>) => ~Flagged(walk(msg)[BodySource])

\* The attachment loop of the current message is over.
AttachLoopDone == pc = "return" /\ ~aborted

\* The parts without a declared filename that the attachment loop names: the
\* unnamed PDF attachments, by walk index.
UnnamedPdf == {i \in 1..Len(walk(msg)) : IsCandidate(walk(msg)[i]) /\ walk(msg)[i].filename = <<>>}

\* The names of the unnamed PDF attachments saved, in the order of the writes.
SavedUnnamed == SelectSeq(writes, LAMBDA w : w.ok /\ w.part \in UnnamedPdf)

AttachmentN(n) == ATTACHMENT_ \o IntStr(n) \o DOT_PDF

WrittenParts == {writes[n].part : n \in 1..Len(writes)}

\* C5, as claimed: every non-multipart part with a non-empty payload that is
\* application/pdf or named *.pdf is written by the attachment extractor, with or
\* without a Content-Disposition header.
C5_EveryPdfPartWritten ==
    AttachLoopDone =>
        \A i \in 1..Len(walk(msg)) :
            (/\ get_content_maintype(walk(msg)[i]) # "multipart"
             /\ LooksLikePdf(walk(msg)[i])
             /\ walk(msg)[i].payload # "")
            => i \in WrittenParts

\* C5, amended: such a part is written (to a name ending in .pdf, the file being
\* there unless the write raised) when it is application/pdf or carries a
\* Content-Disposition header; without the header a part of another content
\* type is never written, whatever its filename.
C5_PdfPartWrittenUnlessSkipped ==
    /\ AttachLoopDone =>
          \A i \in 1..Len(walk(msg)) :
              (/\ get_content_maintype(walk(msg)[i]) # "multipart"
               /\ LooksLikePdf(walk(msg)[i])
               /\ walk(msg)[i].payload # ""
               /\ (walk(msg)[i].ctype = "application/pdf" \/ walk(msg)[i].disp # NONE))
              => \E n \in 1..Len(writes) :
                    /\ writes[n].part = i
                    /\ EndsWith(Lower(writes[n].name), DOT_PDF)
                    /\ writes[n].ok => Exists(fs, email_output_dir, writes[n].name)
    /\ \A i \in WrittenParts :
          walk(msg)[i].ctype = "application/pdf" \/ walk(msg)[i].disp # NONE

\* C5's case: a PDF part without a Content-Disposition header was written, and a
\* part named a.pdf of another content type without the header was not.
C5_Witness ==
    /\ AttachLoopDone
    /\ Len(walk(msg)) = 3
    /\ walk(msg)[2] = [ctype |-> "application/pdf", disp |-> NONE, filename |-> <<>>, payload |-> "P"]
    /\ walk(msg)[3] = [ctype |-> "application/octet-stream", disp |-> NONE, filename |-> A_PDF, payload |-> "P"]
    /\ WrittenParts = {2}
    /\ writes[1].ok

\* email_body.pdf is in the output directory of the current message, and is
\* there as the renderer left it.
BodyPdfExists == Exists(fs, email_output_dir, EMAIL_BODY_PDF)

BodyPdfOfRenderer ==
    \E f \in fs : /\ f.dir = email_output_dir
                  /\ f.name = EMAIL_BODY_PDF
                  /\ f.content.kind # "raw"

C10_NoOverwrite ==
    /\ \A i, j \in 1..Len(writes) :
          (i < j /\ writes[i].ok /\ writes[j].ok) => writes[i].name # writes[j].name
    /\ pdf_generated =>
          \A n \in 1..Len(writes) : writes[n].ok => writes[n].name # EMAIL_BODY_PDF

====
